---- MODULE Spec2Model ----
(***************************************************************************)
(* Position-lot accounting of merchant.trading.portfolio.portfolio:        *)
(* _StaticPortfolio (the holdings map), _OpenPositionStack (the lot        *)
(* stacks) and Portfolio (histories, benchmark caches, clock hook).        *)
(*                                                                         *)
(* Quantities are integers: an Asset's quantity counted in units of        *)
(* 10^-precision of its instrument, so every value is already normalised   *)
(* to the instrument's precision.                                          *)
(***************************************************************************)
EXTENDS Integers, Sequences, FiniteSets, TLC

\* ---------------------------------------------------------------- bounds
\* the largest quantity of an asset handed to a call
MaxQty == 2
\* the largest holding add_asset is called up to
MaxHeld == 4
\* trade executions and clock ticks delivered to a Portfolio
MaxEvents == 2
\* direct calls of _append_trade_to_history
MaxTrades == 2
\* direct calls of handle_trade
MaxCalls == 3

\* ------------------------------------------------------------ value types
Instruments == {"CASH", "X", "Y"}

\* _OpenPositionStack._benchmark / Portfolio._benchmark
benchmark == "CASH"

\* the benchmarks registered on the Portfolio class (keys of _bound_benchmarks)
Benchmarks == {"b1", "b2"}

Asset(i, q) == [instrument |-> i, quantity |-> q]

AssetAdd(a, b) == Asset(a.instrument, a.quantity + b.quantity)

AssetSub(a, b) == Asset(a.instrument, a.quantity - b.quantity)

\* Asset <= Asset (instruments equal at every call site)
AssetLe(a, b) == a.quantity <= b.quantity

\* Asset > 0
AssetPositive(a) == a.quantity > 0

NoAsset == Asset("", 0)

NoTrade == [id |-> 0, sell |-> NoAsset, buy |-> NoAsset]

NoValue == [time |-> -1, trades |-> -1]

\* the trades a caller may deliver as trade object number id: buy and sell
\* instruments differ (the caller rejects the others)
Trades(id) ==
    { t \in [id : {id},
             sell : [instrument : Instruments, quantity : 0..MaxQty],
             buy : [instrument : Instruments, quantity : 0..MaxQty]] :
        t.sell.instrument # t.buy.instrument }

VARIABLES
    startEmpty,       \* whether the portfolio was constructed without assets
    assets,           \* _StaticPortfolio._assets : dict[Instrument, Asset]
    positions,        \* _OpenPositionStack._positions : defaultdict(list)
    tradeHistory,     \* Portfolio._trade_history
    closedPositions,  \* Portfolio._closed_positions
    cache,            \* the cached value of each bound benchmark
    clock,            \* ticks of the market clock
    ntrades,          \* trade objects created so far
    cash,             \* env._old Portfolio._cash of every constructed instance
    classPositions,   \* env._old Positions._positions, an attribute of the class
    last              \* the call made last and how it ended

vars == <<startEmpty, assets, positions, tradeHistory, closedPositions, cache, clock,
          ntrades, cash, classPositions, last>>

NoCall == [op |-> "init", trade |-> NoTrade, asset |-> NoAsset, bm |-> "",
           exc |-> "none", at |-> "", ret |-> <<>>, val |-> NoValue,
           instrument |-> "", self |-> "", action |-> "", ticker |-> "",
           quantity |-> 0, price |-> 0]

\* ------------------------------------------------------ _StaticPortfolio
\* __init__: {asset.instrument: asset for asset in assets or []}
StaticInit(coll) == [i \in DOMAIN coll |-> Asset(i, coll[i])]

\* __getitem__
GetItem(as, i) == IF i \notin DOMAIN as THEN Asset(i, 0) ELSE as[i]

SetItem(as, i, a) == [k \in DOMAIN as \cup {i} |-> IF k = i THEN a ELSE as[k]]

DelItem(as, i) == [k \in DOMAIN as \ {i} |-> as[k]]

\* variant of __getitem__ that stores the zero Asset it synthesizes
GetItemCallInserting(as, i) ==
    IF i \notin DOMAIN as
    THEN [assets |-> SetItem(as, i, Asset(i, 0)), ret |-> Asset(i, 0)]
    ELSE [assets |-> as, ret |-> as[i]]

\* a call of __getitem__: the map it leaves and the Asset it returns
GetItemCall(as, i) ==
    IF i \notin DOMAIN as
    THEN [assets |-> as, ret |-> Asset(i, 0)]
    ELSE [assets |-> as, ret |-> as[i]]

\* a call of __contains__: the map it leaves and the answer
ContainsCall(as, i) ==
    LET g == GetItemCall(as, i)
    IN  [assets |-> g.assets, ret |-> g.ret.quantity > 0]

\* add_asset
AddAsset(as, asset) ==
    LET owned == GetItem(as, asset.instrument)
    IN  SetItem(as, owned.instrument, AssetAdd(owned, asset))

\* variant of has_asset that never refuses
HasAssetAlways(as, asset) == TRUE

\* has_asset
HasAsset(as, asset) == GetItem(as, asset.instrument).quantity >= asset.quantity

\* variant of remove_asset that stores the remainder before it checks
RemoveAssetLate(as, asset) ==
    LET owned == GetItem(as, asset.instrument)
        new   == AssetSub(owned, asset)
    IN  IF HasAsset(as, asset) = FALSE
        THEN [assets |-> SetItem(as, owned.instrument, new), exc |-> "ValueError"]
        ELSE IF new.quantity > 0
             THEN [assets |-> DelItem(as, owned.instrument), exc |-> "none"]
             ELSE [assets |-> SetItem(as, owned.instrument, new), exc |-> "none"]

\* remove_asset: the map after the call and the exception it raised
RemoveAsset(as, asset) ==
    LET owned == GetItem(as, asset.instrument)
        new   == AssetSub(owned, asset)
    IN  IF HasAsset(as, asset) = FALSE
        THEN [assets |-> as, exc |-> "ValueError"]
        ELSE IF new.quantity > 0
             THEN [assets |-> DelItem(as, owned.instrument), exc |-> "none"]
             ELSE [assets |-> SetItem(as, owned.instrument, new), exc |-> "none"]

\* __contains__
Contains(as, i) == GetItem(as, i).quantity > 0

\* the collections of starting assets: each instrument absent or positive
StartAssets ==
    UNION { [S -> 1..MaxQty] : S \in SUBSET Instruments }

\* _OpenPositionStack.__init__: defaultdict(list)
InitPositions == positions = [i \in Instruments |-> <<>>]

\* the attributes Portfolio declares and __init__ does not assign: both
\* histories start empty, no bound benchmark has a cached value, and the
\* market clock has not ticked
InitHistories ==
    /\ tradeHistory = <<>>
    /\ closedPositions = <<>>
    /\ cache = [b \in Benchmarks |-> NoValue]
    /\ clock = 0

\* the module env._old.portfolio once imported: no Portfolio is constructed,
\* and the dict in the body of class Positions is empty
InitPositionsClass ==
    /\ cash = [p \in {} |-> 0]
    /\ classPositions = [t \in {} |-> 0]

Init ==
    /\ InitPositionsClass
    /\ \E coll \in StartAssets :
           /\ assets = StaticInit(coll)
           /\ startEmpty = (DOMAIN coll = {})
    /\ InitPositions
    /\ InitHistories
    /\ ntrades = 0
    /\ last = NoCall

\* a call of add_asset on the holdings
DoAddAsset ==
    \E i \in Instruments, q \in 0..MaxQty :
        /\ GetItem(assets, i).quantity + q <= MaxHeld
        /\ assets' = AddAsset(assets, Asset(i, q))
        /\ last' = [NoCall EXCEPT !.op = "add_asset", !.asset = Asset(i, q)]
        /\ UNCHANGED <<cash, classPositions, startEmpty, positions, tradeHistory, closedPositions, cache,
                       clock, ntrades>>

\* a call of remove_asset on the holdings
DoRemoveAsset ==
    \E i \in Instruments, q \in 0..MaxQty :
        LET r == RemoveAsset(assets, Asset(i, q))
        IN  /\ assets' = r.assets
            /\ last' = [NoCall EXCEPT !.op = "remove_asset", !.asset = Asset(i, q),
                                      !.exc = r.exc,
                                      !.at = IF r.exc = "none" THEN "" ELSE "remove_asset"]
            /\ UNCHANGED <<cash, classPositions, startEmpty, positions, tradeHistory, closedPositions, cache,
                           clock, ntrades>>

\* a call of holdings[instrument]
DoGetItem ==
    \E i \in Instruments :
        LET g == GetItemCall(assets, i)
        IN  /\ assets' = g.assets
            /\ last' = [NoCall EXCEPT !.op = "__getitem__", !.instrument = i,
                                      !.ret = <<g.ret>>]
            /\ UNCHANGED <<cash, classPositions, startEmpty, positions, tradeHistory, closedPositions, cache,
                           clock, ntrades>>

\* a call of instrument in holdings
DoContains ==
    \E i \in Instruments :
        LET g == ContainsCall(assets, i)
        IN  /\ assets' = g.assets
            /\ last' = [NoCall EXCEPT !.op = "__contains__", !.instrument = i,
                                      !.ret = <<g.ret>>]
            /\ UNCHANGED <<cash, classPositions, startEmpty, positions, tradeHistory, closedPositions, cache,
                           clock, ntrades>>

NextHoldings == DoAddAsset \/ DoRemoveAsset \/ DoGetItem \/ DoContains

SpecHoldings == Init /\ [][NextHoldings]_vars

\* ---------------------------------------------------- _OpenPositionStack
\* a lot as the list holds it: a tuple of n fields, the Asset first and the
\* opening trade last
Lot(n, asset, open) == [n |-> n, asset |-> asset, open |-> open]

ClosedPosition(amount, open, close) == [amount |-> amount, open |-> open, close |-> close]

\* variant of _push that stores the pair _pop unpacks
PushPair(pos, trade) ==
    [pos EXCEPT ![trade.buy.instrument] = Append(@, Lot(2, trade.buy, trade.id))]

\* _push: trade_tuple = (trade._buy, 0, trade)
Push(pos, trade) ==
    [pos EXCEPT ![trade.buy.instrument] = Append(@, Lot(3, trade.buy, trade.id))]

\* the while loop of _pop on the sold instrument's list: the list it leaves,
\* the ClosedPositions collected and the exception that ended it
RECURSIVE PopLoop(_, _, _, _)
PopLoop(stack, sold_asset, trade, ret) ==
    IF ~AssetPositive(sold_asset)
    THEN [stack |-> stack, ret |-> ret, exc |-> "none"]
    ELSE IF stack = <<>>
    THEN [stack |-> stack, ret |-> <<>>, exc |-> "IndexError"]
    ELSE LET top  == stack[Len(stack)]
             rest == SubSeq(stack, 1, Len(stack) - 1)
         IN  IF top.n # 2
             THEN [stack |-> rest, ret |-> <<>>, exc |-> "ValueError"]
             ELSE IF AssetLe(sold_asset, top.asset)
             THEN PopLoop(Append(rest, Lot(2, AssetSub(top.asset, trade.sell), top.open)),
                          sold_asset, trade,
                          Append(ret, ClosedPosition(trade.sell, top.open, trade.id)))
             ELSE PopLoop(rest, AssetSub(sold_asset, top.asset), trade,
                          Append(ret, ClosedPosition(top.asset, top.open, trade.id)))

\* _pop
Pop(pos, trade) ==
    LET r == PopLoop(pos[trade.sell.instrument], trade.sell, trade, <<>>)
    IN  [positions |-> [pos EXCEPT ![trade.sell.instrument] = r.stack],
         ret |-> r.ret, exc |-> r.exc]

\* variant of handle_trade that tracks the benchmark like any instrument
HandleTradeNoExemption(pos, trade) == Pop(Push(pos, trade), trade)

\* handle_trade
HandleTrade(pos, trade) ==
    LET pushed == IF trade.buy.instrument # benchmark THEN Push(pos, trade) ELSE pos
    IN  IF trade.sell.instrument # benchmark
        THEN Pop(pushed, trade)
        ELSE [positions |-> pushed, ret |-> <<>>, exc |-> "none"]

\* a call of handle_trade on the open position stack
DoHandleTrade ==
    /\ ntrades < MaxCalls
    /\ \E trade \in Trades(ntrades + 1) :
        LET r == HandleTrade(positions, trade)
        IN  /\ positions' = r.positions
            /\ ntrades' = ntrades + 1
            /\ last' = [NoCall EXCEPT !.op = "handle_trade", !.trade = trade,
                                      !.exc = r.exc, !.ret = r.ret,
                                      !.at = IF r.exc = "none" THEN "" ELSE "_pop"]
            /\ UNCHANGED <<cash, classPositions, startEmpty, assets, tradeHistory, closedPositions, cache,
                           clock>>

\* the stack of a Portfolio constructed without lots
InitStack ==
    /\ Init
    /\ startEmpty

NextStack == DoHandleTrade

SpecStack == InitStack /\ [][NextStack]_vars

\* ------------------------------------------------------------- Portfolio
\* variant of _invalidate_cache that stops after the first bound benchmark
InvalidateCacheFirstOnly(c) ==
    LET b0 == CHOOSE b \in DOMAIN c : TRUE
    IN  [b \in DOMAIN c |-> IF b = b0 THEN NoValue ELSE c[b]]

\* _invalidate_cache: invalidate_cache() on every bound benchmark
InvalidateCache(c) == [b \in DOMAIN c |-> NoValue]

\* invalidates_cache: the wrapper calls _invalidate_cache, then the method
InvalidatesCache(c) == InvalidateCache(c)

\* variant of _append_trade_to_history that inserts the trade at the front
AppendTradeToHistoryFront(th, pos, cps, trade) ==
    LET r == HandleTrade(pos, trade)
    IN  [tradeHistory |-> <<trade>> \o th,
         positions |-> r.positions,
         closedPositions |-> IF r.exc = "none" THEN cps \o r.ret ELSE cps,
         ret |-> r.ret, exc |-> r.exc]

\* _append_trade_to_history: the histories and the stack it leaves, and the
\* exception handle_trade raised (the extend is then never reached)
AppendTradeToHistory(th, pos, cps, trade) ==
    LET r == HandleTrade(pos, trade)
    IN  [tradeHistory |-> Append(th, trade),
         positions |-> r.positions,
         closedPositions |-> IF r.exc = "none" THEN cps \o r.ret ELSE cps,
         ret |-> r.ret, exc |-> r.exc]

\* what a bound benchmark computes from the portfolio at the current time
Compute == [time |-> clock, trades |-> Len(tradeHistory)]

\* a call of _append_trade_to_history
DoAppendTradeToHistory ==
    /\ ntrades < MaxTrades
    /\ \E trade \in Trades(ntrades + 1) :
        LET r == AppendTradeToHistory(tradeHistory, positions, closedPositions, trade)
        IN  /\ tradeHistory' = r.tradeHistory
            /\ positions' = r.positions
            /\ closedPositions' = r.closedPositions
            /\ ntrades' = ntrades + 1
            /\ last' = [NoCall EXCEPT !.op = "_append_trade_to_history",
                                      !.trade = trade, !.exc = r.exc, !.ret = r.ret,
                                      !.at = IF r.exc = "none" THEN "" ELSE "_pop"]
            /\ UNCHANGED <<cash, classPositions, startEmpty, assets, cache, clock>>

NextHistory == DoAppendTradeToHistory

SpecHistory == InitStack /\ [][NextHistory]_vars

\* execute_trade, wrapped by invalidates_cache: the caches are invalidated,
\* then the sold asset is removed, the bought asset added and the trade
\* appended to the history; a raise ends the call where it happens
ExecuteTrade ==
    /\ ntrades + clock < MaxEvents
    /\ \E trade \in Trades(ntrades + 1) :
        LET rm == RemoveAsset(assets, trade.sell)
            r  == AppendTradeToHistory(tradeHistory, positions, closedPositions, trade)
        IN  /\ cache' = InvalidatesCache(cache)
            /\ ntrades' = ntrades + 1
            /\ IF rm.exc # "none"
               THEN /\ last' = [NoCall EXCEPT !.op = "execute_trade", !.trade = trade,
                                              !.exc = rm.exc, !.at = "remove_asset"]
                    /\ UNCHANGED <<assets, tradeHistory, positions, closedPositions>>
               ELSE /\ assets' = AddAsset(rm.assets, trade.buy)
                    /\ tradeHistory' = r.tradeHistory
                    /\ positions' = r.positions
                    /\ closedPositions' = r.closedPositions
                    /\ last' = [NoCall EXCEPT !.op = "execute_trade", !.trade = trade,
                                              !.exc = r.exc, !.ret = r.ret,
                                              !.at = IF r.exc = "none" THEN "" ELSE "_pop"]
            /\ UNCHANGED <<cash, classPositions, startEmpty, clock>>

\* a tick of the market clock: the hook attached in __init__ runs
ClockTick ==
    /\ ntrades + clock < MaxEvents
    /\ clock' = clock + 1
    /\ cache' = InvalidateCache(cache)
    /\ last' = [NoCall EXCEPT !.op = "tick"]
    /\ UNCHANGED <<cash, classPositions, startEmpty, assets, positions, tradeHistory, closedPositions,
                   ntrades>>

\* a read of a bound benchmark: the cached value, computed first when the
\* cache is invalid
BenchmarkRead ==
    \E b \in Benchmarks :
        LET v == IF cache[b] = NoValue THEN Compute ELSE cache[b]
        IN  /\ cache' = [cache EXCEPT ![b] = v]
            /\ last' = [NoCall EXCEPT !.op = "read", !.bm = b, !.val = v]
            /\ UNCHANGED <<cash, classPositions, startEmpty, assets, positions, tradeHistory,
                           closedPositions, clock, ntrades>>

\* a Portfolio constructed with no assets or with benchmark cash only
InitPortfolio ==
    /\ Init
    /\ DOMAIN assets \subseteq {benchmark}

Next == ExecuteTrade \/ ClockTick \/ BenchmarkRead

Spec == InitPortfolio /\ [][Next]_vars

\* ================================================================ claims
\* the quantity the holdings report for an instrument
Held(as, i) == GetItem(as, i).quantity

\* the total quantity of the lots of one list
RECURSIVE Total(_)
Total(stack) ==
    IF stack = <<>> THEN 0
    ELSE stack[Len(stack)].asset.quantity + Total(SubSeq(stack, 1, Len(stack) - 1))

\* the ClosedPositions of a last-in-first-out match of quantity q of
\* instrument i against a list of lots, for closing trade close
RECURSIVE LifoMatch(_, _, _, _)
LifoMatch(stack, i, q, close) ==
    IF q = 0 \/ stack = <<>> THEN <<>>
    ELSE LET top  == stack[Len(stack)]
             rest == SubSeq(stack, 1, Len(stack) - 1)
         IN  IF top.asset.quantity > q
             THEN <<ClosedPosition(Asset(i, q), top.open, close)>>
             ELSE <<ClosedPosition(top.asset, top.open, close)>>
                  \o LifoMatch(rest, i, q - top.asset.quantity, close)

\* the map holds a key exactly for the instruments held in a positive quantity
Minimal(as) == \A i \in Instruments : (i \in DOMAIN as) <=> (Held(as, i) > 0)

\* every lot of a list has a positive quantity
PositiveLots(stack) == \A k \in 1..Len(stack) : stack[k].asset.quantity > 0

\* C1 (Conservation): in a portfolio constructed without assets, after a trade
\* that executed without error the holdings of every instrument but the
\* benchmark equal the total of the lots on that instrument's stack.
Conservation ==
    (startEmpty /\ last.exc = "none") =>
        \A i \in Instruments \ {benchmark} : Held(assets, i) = Total(positions[i])

\* C2 (LIFO matching): a handle_trade call selling a quantity q > 0 of an
\* instrument other than the benchmark, q at most the total of its open lots
\* (each of a positive quantity), returns the ClosedPositions of a last-in-first-out match: the newest lot
\* first, each lot closed in full before an older one, the last at most in part.
LifoMatching ==
    [][ LET t == last'.trade
            i == t.sell.instrument
            q == t.sell.quantity
        IN  (/\ last'.op = "handle_trade"
             /\ i # benchmark
             /\ q > 0
             /\ PositiveLots(positions[i])
             /\ q <= Total(positions[i]))
            => (/\ last'.exc = "none"
                /\ last'.ret = LifoMatch(positions[i], i, q, t.id)) ]_vars

\* every lot of list s is still in list t, in place and unchanged
IsPrefix(s, t) == Len(s) <= Len(t) /\ SubSeq(t, 1, Len(s)) = s

\* C3 (Over-sell): a handle_trade call selling more of an instrument other
\* than the benchmark than the total of its open lots (each of a positive
\* quantity, at least one open) fails, and no lot that
\* was on the stack of any instrument before the call is popped or shrunk.
OverSellFails ==
    [][ LET t == last'.trade
            i == t.sell.instrument
        IN  (/\ last'.op = "handle_trade"
             /\ i # benchmark
             /\ PositiveLots(positions[i])
             /\ Total(positions[i]) > 0
             /\ t.sell.quantity > Total(positions[i]))
            => (/\ last'.exc # "none"
                /\ \A j \in Instruments : IsPrefix(positions[j], positions'[j])) ]_vars

\* C4 (Atomic trade application): a trade whose sold quantity exceeds the held
\* quantity leaves the holdings, the trade history, the closed-position
\* history and the lot stacks as they were.
AtomicTradeApplication ==
    [][ LET t == last'.trade
        IN  (/\ last'.op = "execute_trade"
             /\ Held(assets, t.sell.instrument) < t.sell.quantity)
            => (/\ last'.exc # "none"
                /\ assets' = assets
                /\ tradeHistory' = tradeHistory
                /\ closedPositions' = closedPositions
                /\ positions' = positions) ]_vars

\* C4 witness: a trade was refused by remove_asset for lack of balance
AtomicTradeApplicationWitness ==
    /\ last.op = "execute_trade"
    /\ last.exc = "ValueError"
    /\ last.at = "remove_asset"
    /\ Held(assets, last.trade.sell.instrument) < last.trade.sell.quantity
    /\ last.trade.buy.quantity > 0

\* the trade handled last left something behind
TradeLeftTrace(t) ==
    \/ \E k \in 1..Len(tradeHistory) : tradeHistory[k].id = t.id
    \/ \E i \in Instruments : \E k \in 1..Len(positions[i]) : positions[i][k].open = t.id
    \/ \E k \in 1..Len(closedPositions) : closedPositions[k].close = t.id

\* C5 (Single logical transaction): when handle_trade raised while a trade was
\* processed, the trade is not in the trade history, no lot it pushed is on a
\* stack and no ClosedPosition of it is in the closed-position history.
NoPartialApplication ==
    (last.op = "_append_trade_to_history" /\ last.at = "_pop")
        => ~TradeLeftTrace(last.trade)

\* C6 (Full closure): a handle_trade call selling exactly the total open
\* quantity (> 0, in lots of positive quantities) of an instrument other than
\* the benchmark succeeds and leaves that instrument's lot stack empty.
FullClosure ==
    [][ LET t == last'.trade
            i == t.sell.instrument
        IN  (/\ last'.op = "handle_trade"
             /\ i # benchmark
             /\ PositiveLots(positions[i])
             /\ t.sell.quantity > 0
             /\ t.sell.quantity = Total(positions[i]))
            => (/\ last'.exc = "none"
                /\ positions'[i] = <<>>) ]_vars

\* C7 (Cache invalidation): right after a trade execution or a clock tick the
\* cache of every bound benchmark is invalid; hence no cache ever holds a value
\* computed before the latest trade or tick, and every read returns the value
\* computed from the current state.
CacheInvalidation ==
    /\ last.op \in {"execute_trade", "tick"} => \A b \in Benchmarks : cache[b] = NoValue
    /\ \A b \in Benchmarks : cache[b] \in {NoValue, Compute}
    /\ last.op = "read" => last.val = Compute

\* C7 witness: a benchmark is read after trades and ticks while the other
\* benchmark's cache is still invalid
CacheInvalidationWitness ==
    /\ last.op = "read"
    /\ clock > 0
    /\ tradeHistory # <<>>
    /\ last.val = Compute
    /\ \E b \in Benchmarks : cache[b] = NoValue

\* C8 (Insufficient balance): remove_asset of more than is held fails and
\* leaves the map as it was, and every stored quantity is >= 0.
InsufficientBalance ==
    /\ [][ (/\ last'.op = "remove_asset"
            /\ Held(assets, last'.asset.instrument) < last'.asset.quantity)
           => (last'.exc # "none" /\ assets' = assets) ]_vars
    /\ [](\A i \in DOMAIN assets : assets[i].quantity >= 0)

\* C8 witness: a removal was refused and the holding is still there
InsufficientBalanceWitness ==
    /\ last.op = "remove_asset"
    /\ last.exc = "ValueError"
    /\ Held(assets, last.asset.instrument) > 0
    /\ Held(assets, last.asset.instrument) < last.asset.quantity

\* C9 (Successful removal subtracts): remove_asset of a quantity q > 0 out of
\* a held quantity h >= q leaves h - q of that instrument and the entries of all
\* other instruments as they were.
RemovalSubtracts ==
    [][ LET i == last'.asset.instrument
            q == last'.asset.quantity
        IN  (last'.op = "remove_asset" /\ q > 0 /\ Held(assets, i) >= q)
            => (/\ last'.exc = "none"
                /\ Held(assets', i) = Held(assets, i) - q
                /\ \A j \in Instruments \ {i} :
                      /\ (j \in DOMAIN assets') <=> (j \in DOMAIN assets)
                      /\ GetItem(assets', j) = GetItem(assets, j)) ]_vars

\* C10 (Minimal map): an add_asset or remove_asset call of a positive quantity
\* on a map whose keys are exactly the instruments held in a positive quantity
\* leaves such a map, on which contains is true exactly for the stored keys.
MinimalMap ==
    [][ (/\ last'.op \in {"add_asset", "remove_asset"}
         /\ last'.asset.quantity > 0
         /\ Minimal(assets))
        => (/\ Minimal(assets')
            /\ \A i \in Instruments : Contains(assets', i) <=> (i \in DOMAIN assets')) ]_vars

\* C11 (Read-only queries): a get or a contains call leaves the holdings map
\* as it was; a get of an absent instrument returns a zero-quantity Asset of
\* that instrument, a get of a stored one the stored Asset, and contains
\* answers whether the quantity is > 0.
ReadOnlyQueries ==
    [][ LET i == last'.instrument
        IN  /\ last'.op \in {"__getitem__", "__contains__"} => assets' = assets
            /\ last'.op = "__getitem__" =>
                  last'.ret = <<IF i \in DOMAIN assets THEN assets[i] ELSE Asset(i, 0)>>
            /\ last'.op = "__contains__" => last'.ret = <<Held(assets, i) > 0>> ]_vars

\* C11 witness: an instrument that is no key was queried and is still no key,
\* while another instrument is stored
ReadOnlyQueriesWitness ==
    /\ last.op = "__getitem__"
    /\ last.instrument \notin DOMAIN assets
    /\ last.ret = <<Asset(last.instrument, 0)>>
    /\ DOMAIN assets # {}

\* C12 (Benchmark exemption): the lot stack of the benchmark instrument is
\* always empty, and a handle_trade call whose sold instrument is the benchmark
\* returns no ClosedPosition and pops or shrinks no lot of any instrument.
BenchmarkExemption ==
    /\ [](positions[benchmark] = <<>>)
    /\ [][ (last'.op = "handle_trade" /\ last'.trade.sell.instrument = benchmark)
           => (/\ last'.exc = "none"
               /\ last'.ret = <<>>
               /\ \A j \in Instruments : IsPrefix(positions[j], positions'[j])) ]_vars

\* C12 witness: a positive quantity of the benchmark was sold for another
\* instrument that already had a lot, and both lots are on its stack
BenchmarkExemptionWitness ==
    /\ last.op = "handle_trade"
    /\ last.trade.sell.instrument = benchmark
    /\ last.trade.sell.quantity > 0
    /\ last.trade.buy.quantity > 0
    /\ Len(positions[last.trade.buy.instrument]) >= 2

\* C13 (Zero-quantity trades): a handle_trade call for a trade whose bought and
\* sold quantities are both zero returns no ClosedPosition and leaves the lot
\* stack of every instrument as it was.
ZeroQuantityNoOp ==
    [][ (/\ last'.op = "handle_trade"
         /\ last'.trade.sell.quantity = 0
         /\ last'.trade.buy.quantity = 0)
        => (/\ last'.exc = "none"
            /\ last'.ret = <<>>
            /\ positions' = positions) ]_vars

\* the total of the amounts of a sequence of ClosedPositions
RECURSIVE SumAmounts(_)
SumAmounts(cps) ==
    IF cps = <<>> THEN 0
    ELSE cps[1].amount.quantity + SumAmounts(SubSeq(cps, 2, Len(cps)))

\* a handle_trade call that sells a quantity of an instrument other than the
\* benchmark which its open lots, each of a positive quantity, cover
CoveredSale(pos, t) ==
    /\ t.sell.instrument # benchmark
    /\ PositiveLots(pos[t.sell.instrument])
    /\ t.sell.quantity <= Total(pos[t.sell.instrument])

MatchingReturns ==
    [][ (last'.op = "handle_trade" /\ CoveredSale(positions, last'.trade))
        => last'.exc = "none" ]_vars

\* C16 (No empty lots): a handle_trade call with positive bought and sold
\* quantities on stacks of lots of positive quantities leaves only lots of
\* positive quantities, and when the sold quantity equals the quantity of the
\* top lot, that lot is closed in full by one ClosedPosition and removed.
NoEmptyLots ==
    [][ LET t == last'.trade
            i == t.sell.instrument
            stack == positions[i]
        IN  (/\ last'.op = "handle_trade"
             /\ t.sell.quantity > 0
             /\ t.buy.quantity > 0
             /\ \A j \in Instruments : PositiveLots(positions[j]))
            => (/\ \A j \in Instruments : PositiveLots(positions'[j])
                /\ (/\ i # benchmark
                    /\ stack # <<>>
                    /\ stack[Len(stack)].asset.quantity = t.sell.quantity)
                   => (/\ last'.exc = "none"
                       /\ last'.ret = <<ClosedPosition(stack[Len(stack)].asset,
                                                       stack[Len(stack)].open, t.id)>>
                       /\ positions'[i] = SubSeq(stack, 1, Len(stack) - 1))) ]_vars

\* C18 (History ordering): the trade history and the closed-position history
\* only grow at their ends, a delivered trade becomes the last entry of the
\* trade history, so that trades stand in the order of their delivery, and
\* the opening and the closing trade of every recorded ClosedPosition are in
\* the trade history, the opening one first.
HistoryOrdering ==
    /\ [][ /\ IsPrefix(tradeHistory, tradeHistory')
           /\ IsPrefix(closedPositions, closedPositions')
           /\ last'.op = "_append_trade_to_history"
                 => tradeHistory' = Append(tradeHistory, last'.trade) ]_vars
    /\ [](\A k, l \in 1..Len(tradeHistory) :
             k < l => tradeHistory[k].id < tradeHistory[l].id)
    /\ [](\A c \in 1..Len(closedPositions) :
             \E k, l \in 1..Len(tradeHistory) :
                /\ k < l
                /\ tradeHistory[k].id = closedPositions[c].open
                /\ tradeHistory[l].id = closedPositions[c].close)

\* C18 witness: two trades were delivered, the second one a sale that raised
\* in _pop, and both are in the history
HistoryOrderingWitness ==
    /\ last.op = "_append_trade_to_history"
    /\ last.at = "_pop"
    /\ Len(tradeHistory) >= 2
    /\ tradeHistory[Len(tradeHistory)] = last.trade

\* ---------------------------------------------------------------------
\* env/_old/portfolio.py: the legacy Portfolio with cash and share counts

MaxCash == 2
MaxPrice == 1
MaxShares == 2

Portfolios == {"p1", "p2"}
Tickers == {"A", "B"}
Actions == {"BUY", "SELL", "HOLD"}

\* Positions.__getitem__: the dict after the lookup, which stores a Position
\* of quantity 0 for a ticker that is not a key
PositionsGetItem(d, t) ==
    IF t \in DOMAIN d
    THEN d
    ELSE [u \in DOMAIN d \cup {t} |-> IF u = t THEN 0 ELSE d[u]]

\* portfolio[ticker].quantity
Quantity(d, t) == PositionsGetItem(d, t)[t]

\* the quantity instance p reports for ticker t: p._positions is an object of
\* its own, but p._positions._positions is found on the class
Reported(p, t) == Quantity(classPositions, t)

\* variant of buy without the test of the cash
BuyUnguarded(c, d, t, q, price) ==
    [cash |-> c - price * q,
     positions |-> [PositionsGetItem(d, t) EXCEPT ![t] = @ + q],
     exc |-> "none"]

\* Portfolio.buy
Buy(c, d, t, q, price) ==
    IF c < price * q
    THEN [cash |-> c, positions |-> d, exc |-> "ValueError"]
    ELSE [cash |-> c - price * q,
          positions |-> [PositionsGetItem(d, t) EXCEPT ![t] = @ + q],
          exc |-> "none"]

\* Portfolio.sell: the test itself looks the ticker up
Sell(c, d, t, q, price) ==
    LET e == PositionsGetItem(d, t)
    IN  IF e[t] < q
        THEN [cash |-> c, positions |-> e, exc |-> "ValueError"]
        ELSE [cash |-> c + price * q,
              positions |-> [e EXCEPT ![t] = @ - q],
              exc |-> "none"]

\* Portfolio.perform_action
PerformAction(c, d, action, t, q, price) ==
    IF action = "BUY" THEN Buy(c, d, t, q, price)
    ELSE IF action = "SELL" THEN Sell(c, d, t, q, price)
    ELSE [cash |-> c, positions |-> d, exc |-> "ValueError"]

\* the result r of a call keeps the cash and the share counts in the range
\* explored
InRange(r) ==
    /\ r.cash <= MaxCash
    /\ \A t \in DOMAIN r.positions : r.positions[t] <= MaxShares

\* the call of instance p that ended as r
LegacyCall(p, r, call) ==
    /\ InRange(r)
    /\ cash' = [cash EXCEPT ![p] = r.cash]
    /\ classPositions' = r.positions
    /\ last' = [call EXCEPT !.self = p, !.exc = r.exc]
    /\ UNCHANGED <<startEmpty, assets, positions, tradeHistory, closedPositions,
                   cache, clock, ntrades>>

\* Portfolio(start_cash, market)
DoPortfolioInit ==
    \E p \in Portfolios \ DOMAIN cash, c \in 0..MaxCash :
        /\ cash' = [x \in DOMAIN cash \cup {p} |-> IF x = p THEN c ELSE cash[x]]
        /\ last' = [NoCall EXCEPT !.op = "__init__", !.self = p]
        /\ UNCHANGED <<classPositions, startEmpty, assets, positions, tradeHistory,
                       closedPositions, cache, clock, ntrades>>

\* portfolio[ticker]
DoPortfolioGetItem ==
    \E p \in DOMAIN cash, t \in Tickers :
        /\ classPositions' = PositionsGetItem(classPositions, t)
        /\ last' = [NoCall EXCEPT !.op = "Portfolio.__getitem__", !.self = p,
                                  !.ticker = t, !.ret = <<Reported(p, t)>>]
        /\ UNCHANGED <<cash, startEmpty, assets, positions, tradeHistory,
                       closedPositions, cache, clock, ntrades>>

DoBuy ==
    \E p \in DOMAIN cash, t \in Tickers, q \in 0..MaxShares, price \in 0..MaxPrice :
        LegacyCall(p, Buy(cash[p], classPositions, t, q, price),
                   [NoCall EXCEPT !.op = "buy", !.action = "BUY", !.ticker = t,
                                  !.quantity = q, !.price = price])

DoSell ==
    \E p \in DOMAIN cash, t \in Tickers, q \in 0..MaxShares, price \in 0..MaxPrice :
        LegacyCall(p, Sell(cash[p], classPositions, t, q, price),
                   [NoCall EXCEPT !.op = "sell", !.action = "SELL", !.ticker = t,
                                  !.quantity = q, !.price = price])

DoPerformAction ==
    \E p \in DOMAIN cash, a \in Actions, t \in Tickers, q \in 0..MaxShares,
       price \in 0..MaxPrice :
        LegacyCall(p, PerformAction(cash[p], classPositions, a, t, q, price),
                   [NoCall EXCEPT !.op = "perform_action", !.action = a,
                                  !.ticker = t, !.quantity = q, !.price = price])

NextLegacy ==
    DoPortfolioInit \/ DoPortfolioGetItem \/ DoBuy \/ DoSell \/ DoPerformAction

SpecLegacy == InitStack /\ [][NextLegacy]_vars

\* C19 (Legacy Portfolio guards): with prices and quantities >= 0 the cash of
\* every legacy Portfolio and every share count stay >= 0, and a buy that
\* costs more than the cash, a sell of more than the quantity held and a
\* perform_action of another action than BUY and SELL raise and leave the
\* cash and every reported quantity as they were.
LegacyGuards ==
    /\ [](/\ \A p \in DOMAIN cash : cash[p] >= 0
          /\ \A t \in DOMAIN classPositions : classPositions[t] >= 0)
    /\ [][ last'.op \in {"buy", "sell", "perform_action"} =>
             LET p == last'.self
                 a == last'.action
                 refused ==
                    \/ a = "BUY" /\ cash[p] < last'.price * last'.quantity
                    \/ a = "SELL" /\ Reported(p, last'.ticker) < last'.quantity
                    \/ a \notin {"BUY", "SELL"}
             IN  refused =>
                    /\ last'.exc = "ValueError"
                    /\ cash' = cash
                    /\ \A t \in Tickers :
                          Quantity(classPositions', t) = Quantity(classPositions, t)
         ]_vars

\* C19 witness: a buy that costs more than the cash of a portfolio that has
\* cash and shares was refused
LegacyGuardsWitness ==
    /\ last.op = "buy"
    /\ last.exc = "ValueError"
    /\ cash[last.self] > 0
    /\ last.price * last.quantity > cash[last.self]
    /\ \E t \in DOMAIN classPositions : classPositions[t] > 0

\* C20 (Legacy Portfolio isolation): a buy or sell on one legacy Portfolio
\* leaves the quantity every other instance reports for every ticker
\* unchanged, and a Portfolio just constructed reports 0 for every ticker.
LegacyIsolation ==
    [][ /\ last'.op \in {"buy", "sell", "perform_action"} =>
              \A p \in DOMAIN cash \ {last'.self}, t \in Tickers :
                 Reported(p, t)' = Reported(p, t)
        /\ last'.op = "__init__" =>
              \A t \in Tickers : Reported(last'.self, t)' = 0 ]_vars

====
